---- MODULE Spec2Model ----
(***************************************************************************)
(* Model of memos-cli.py: one command-line invocation after another        *)
(* against a remote Memos service.  Every invocation runs                   *)
(*   get_config -> parse_args -> one branch of the if/elif chain -> exit.   *)
(* Texts are sequences of one-character strings (the fence markers and the  *)
(* path words are single tokens), so strip, rstrip, lower, split and        *)
(* replace are computed, not assumed.  Inputs are drawn where the code      *)
(* reads them: the environment and ~/.memos.conf in get_config, argv in     *)
(* parse_args, stdin and the clipboard utilities inside the handlers, the   *)
(* service's answer at the HTTP call.                                       *)
(***************************************************************************)
EXTENDS Naturals, Sequences, FiniteSets, TLC

VARIABLES
    memos,       \* the service: stored memos, oldest first
    nextId,      \* the service: id the next created memo gets
    pc,          \* position of the running process
    environ,     \* os.environ (after load_dotenv merged the file)
    cfg,         \* locals of __main__: base_url, token, visibility, adv_feat
    args,        \* argparse namespace
    handlers,    \* action handlers started, in order
    http,        \* HTTP requests issued, in order
    stdout,      \* lines printed
    exit_code,   \* process exit status (meaningful when pc = "done")
    stdin,       \* what the process learned about stdin
    input_data,  \* local input_data of post_to_memos / update_memo
    procs,       \* external clipboard processes started, in order
    copy_status  \* outcome of copy_to_clipboard

service == <<memos, nextId>>
process == <<pc, environ, cfg, args, handlers, http, stdout, exit_code,
             stdin, input_data, procs, copy_status>>
vars == <<memos, nextId, pc, environ, cfg, args, handlers, http, stdout,
          exit_code, stdin, input_data, procs, copy_status>>

\* ---------------------------------------------------------------- bounds
MaxLen == 2
MaxMemos == 2

\* ------------------------------------------------------ program constants
LastPageSize == 1
SearchPageSize == 5
PreviewLen == 60

\* ------------------------------------------------------------------ texts
\* Python's None, distinct from every text.
None == <<"<None>">>

Chars == {"a", " "}
Whitespace == {" ", "\n", "\t"}

Texts(n) == UNION {[1..k -> Chars] : k \in 0..n}

\* Python truthiness of an optional text: None and "" are falsy.
Truthy(v) == v # None /\ v # <<>>

RECURSIVE LStrip(_)
LStrip(s) == IF s # <<>> /\ Head(s) \in Whitespace THEN LStrip(Tail(s)) ELSE s

RECURSIVE RStrip(_)
RStrip(s) ==
    IF s # <<>> /\ s[Len(s)] \in Whitespace
    THEN RStrip(SubSeq(s, 1, Len(s) - 1)) ELSE s

\* str.strip()
StripIdentity(s) == s
Strip(s) == RStrip(LStrip(s))

\* str.rstrip('/')
RECURSIVE RStripSlash(_)
RStripSlash(s) ==
    IF s # <<>> /\ s[Len(s)] = "/"
    THEN RStripSlash(SubSeq(s, 1, Len(s) - 1)) ELSE s

\* str.lower()
LowerChar(c) ==
    CASE c = "T" -> "t" [] c = "R" -> "r" [] c = "U" -> "u" [] c = "E" -> "e"
      [] OTHER -> c
Lower(s) == [i \in 1..Len(s) |-> LowerChar(s[i])]

\* s.split('/')[-1]
RECURSIVE SplitLast(_)
SplitLast(s) ==
    IF s = <<>> THEN <<>>
    ELSE IF s[Len(s)] = "/" THEN <<>>
    ELSE Append(SplitLast(SubSeq(s, 1, Len(s) - 1)), s[Len(s)])

\* s.split('\n')[0]
RECURSIVE FirstLine(_)
FirstLine(s) ==
    IF s = <<>> \/ Head(s) = "\n" THEN <<>>
    ELSE <<Head(s)>> \o FirstLine(Tail(s))

\* s[:n]
Prefix(s, n) == SubSeq(s, 1, IF Len(s) < n THEN Len(s) ELSE n)

\* s.replace(tok, "")
Remove(s, tok) == SelectSeq(s, LAMBDA c : c # tok)

\* q in s
Contains(s, q) ==
    \E i \in 1..(Len(s) + 1) :
        i + Len(q) - 1 <= Len(s) /\ SubSeq(s, i, i + Len(q) - 1) = q

Reverse(s) == [i \in 1..Len(s) |-> s[Len(s) + 1 - i]]

\* --------------------------------------------------------------- envelope
\* The fence markers, each one token; <fence> stands for the three backquotes.
FenceOpen == "<fence>text\n"
FenceClose == "\n<fence>"

\* memo_content: the opening fence line, input_data, the closing fence
NoEnvelope(input) == input
Envelope(input) == <<FenceOpen>> \o input \o <<FenceClose>>

\* the two replace calls of the search preview: both fence markers removed
StripEnvelope(content) == Remove(Remove(content, FenceOpen), FenceClose)

\* ---------------------------------------------------------- configuration
Keys == {"MEMOS_URL", "MEMOS_TOKEN", "MEMOS_VISIBILITY", "MEMOS_ADVANCED_FEATURES"}

UrlText == <<"h", "/">>
TokenText == <<"k">>
Private == <<"PRIVATE">>
Public == <<"PUBLIC">>
TrueText == <<"T", "r", "u", "e">>
FalseText == <<"f", "a", "l", "s", "e">>

MkEnv(u, t, v, a) ==
    [k \in Keys |->
        CASE k = "MEMOS_URL" -> u
          [] k = "MEMOS_TOKEN" -> t
          [] k = "MEMOS_VISIBILITY" -> v
          [] k = "MEMOS_ADVANCED_FEATURES" -> a]

NoEnv == MkEnv(None, None, None, None)

\* The environment the process is started with.
Environs ==
    {MkEnv(u, t, None, None) : u \in {None, <<>>, UrlText}, t \in {None, <<>>, TokenText}}

\* Contents of ~/.memos.conf; NoEnv also stands for "no such file".
ConfFiles ==
    {MkEnv(u, t, v, a) :
        u \in {None, <<>>, UrlText}, t \in {None, <<>>, TokenText},
        v \in {None, Public}, a \in {None, TrueText}}

\* load_dotenv(dotenv_path=config_path): values already set are kept.
LoadDotenv(env, file) == [k \in Keys |-> IF env[k] # None THEN env[k] ELSE file[k]]

\* os.getenv(key, default)
Getenv(env, key, default) == IF env[key] # None THEN env[key] ELSE default

\* if not url or not token
ConfigMissingUrlOnly(url, token) == ~Truthy(url)
ConfigMissing(url, token) == ~Truthy(url) \/ ~Truthy(token)

\* get_config() on the merged environment: what it returns, or that it exits.
GetConfig(env) ==
    LET url == Getenv(env, "MEMOS_URL", None)
        token == Getenv(env, "MEMOS_TOKEN", None)
        visibility == Getenv(env, "MEMOS_VISIBILITY", Private)
        adv_feat == Lower(Getenv(env, "MEMOS_ADVANCED_FEATURES", FalseText)) = <<"t", "r", "u", "e">>
    IN  IF ConfigMissing(url, token)
        THEN [missing |-> TRUE, base_url |-> None, token |-> None,
              visibility |-> visibility, adv_feat |-> adv_feat]
        ELSE [missing |-> FALSE, base_url |-> RStripSlash(url), token |-> token,
              visibility |-> visibility, adv_feat |-> adv_feat]

NoCfg == [missing |-> TRUE, base_url |-> None, token |-> None,
          visibility |-> None, adv_feat |-> FALSE]

\* ------------------------------------------------------------------ lines
Line(tag, text) == [tag |-> tag, text |-> text]

\* f"{base_url}/memos/{memo_id}"
MemoUrl(base_url, memo_id) == base_url \o <<"/", "memos", "/">> \o memo_id


\* --------------------------------------------------------- clipboard bridge
\* What running a clipboard utility can give: it could not be spawned, it ran
\* and failed, or it ran and printed out.
PasteResults ==
    {[started |-> FALSE, out |-> None], [started |-> TRUE, out |-> None]}
    \cup {[started |-> TRUE, out |-> t] : t \in Texts(MaxLen)}

Proc(cmd, mode, input) == [cmd |-> cmd, mode |-> mode, input |-> input]

\* subprocess.check_output([cmd, ...]).decode().strip() under try/except:
\* the text, or None when the call raised.
RunPaste(cmd, res) ==
    [text |-> IF res.out # None THEN Strip(res.out) ELSE None,
     procs |-> IF res.started THEN <<Proc(cmd, "paste", None)>> ELSE <<>>]

\* get_clipboard_text(): xclip if shutil.which finds it, else wl-paste if
\* found; an exception gives None at once.  res is what the utility does.
GetClipboardTextFallThrough(xclip, wlpaste, res) ==
    IF xclip
    THEN LET r == RunPaste("xclip", res)
             w == RunPaste("wl-paste", res)
         IN  IF r.text = None /\ wlpaste
             THEN [text |-> w.text, procs |-> r.procs \o w.procs]
             ELSE r
    ELSE IF wlpaste THEN RunPaste("wl-paste", res)
    ELSE [text |-> None, procs |-> <<>>]

GetClipboardText(xclip, wlpaste, res) ==
    IF xclip THEN RunPaste("xclip", res)
    ELSE IF wlpaste THEN RunPaste("wl-paste", res)
    ELSE [text |-> None, procs |-> <<>>]

\* What Popen(...).communicate(input=...) can do: run the utility, fail to
\* spawn it (Popen raises OSError), or find the pipe closed while writing
\* (communicate ignores the broken pipe).
CopyResults == {"ok", "spawn_error", "broken_pipe"}

\* copy_to_clipboard(text): xclip if found, else wl-copy if found, else
\* nothing.  No exception is caught here.
CopyToClipboard(text, xclip, wlcopy, res) ==
    IF xclip \/ wlcopy
    THEN LET cmd == IF xclip THEN "xclip" ELSE "wl-copy"
         IN  IF res = "spawn_error"
             THEN [status |-> "raised", procs |-> <<>>]
             ELSE [status |-> IF res = "ok" THEN "copied" ELSE "pipe_closed",
                   procs |-> <<Proc(cmd, "copy", text)>>]
    ELSE [status |-> "no_tool", procs |-> <<>>]

\* Every way one call of copy_to_clipboard(text) can go.
CopyOutcomes(text) ==
    {CopyToClipboard(text, x, w, r) : x \in BOOLEAN, w \in BOOLEAN, r \in CopyResults}

\* --------------------------------------------------------------- service
\* The remote service keeps the memos and answers each request once.  A memo
\* is [name, content]; `posted` is history: the text the client last sent
\* for it, before the envelope was put around it.
Memo(id, content, posted) ==
    [name |-> <<"memos", "/", ToString(id)>>, content |-> content, posted |-> posted]

MemoId(m) == SplitLast(m.name)
Ids(ms) == {MemoId(ms[i]) : i \in 1..Len(ms)}

\* A failed exchange: requests raises ConnectionError or Timeout, or
\* raise_for_status() raises HTTPError for a non-2xx answer.
Failures == {"ConnectionError", "Timeout", "HTTPError"}

Resp(status, body, ms, nid) == [status |-> status, body |-> body, memos |-> ms, nextId |-> nid]

Failed(ms, nid) == {Resp(f, <<>>, ms, nid) : f \in Failures}

\* GET /api/v1/memos?page_size=n : newest first
ServiceList(ms, nid, n) ==
    {Resp("ok", Prefix(Reverse(ms), n), ms, nid)} \cup Failed(ms, nid)

\* GET /api/v1/memos?filter=content.contains('q')&page_size=n
ServiceSearch(ms, nid, q, n) ==
    {Resp("ok", Prefix(SelectSeq(Reverse(ms), LAMBDA m : Contains(m.content, q)), n), ms, nid)}
    \cup Failed(ms, nid)

\* POST /api/v1/memos : the service assigns the id; a full store refuses.  A
\* timeout can strike after the service has stored the memo.
ServiceCreate(ms, nid, content, posted) ==
    IF nid <= MaxMemos
    THEN LET m == Memo(nid, content, posted)
         IN  {Resp("ok", <<m>>, Append(ms, m), nid + 1),
              Resp("Timeout", <<>>, Append(ms, m), nid + 1)}
             \cup Failed(ms, nid)
    ELSE Failed(ms, nid)

\* DELETE /api/v1/memos/{id} : an unknown id is answered non-2xx.
ServiceDelete(ms, nid, id) ==
    IF id \in Ids(ms)
    THEN LET rest == SelectSeq(ms, LAMBDA m : MemoId(m) # id)
         IN  {Resp("ok", <<>>, rest, nid), Resp("Timeout", <<>>, rest, nid)}
             \cup Failed(ms, nid)
    ELSE Failed(ms, nid)

\* PATCH /api/v1/memos/{id}?update_mask=content,visibility
ServiceUpdate(ms, nid, id, content, posted) ==
    IF id \in Ids(ms)
    THEN LET new == [i \in 1..Len(ms) |->
                        IF MemoId(ms[i]) = id
                        THEN [ms[i] EXCEPT !.content = content, !.posted = posted]
                        ELSE ms[i]]
         IN  {Resp("ok", <<>>, new, nid), Resp("Timeout", <<>>, new, nid)}
             \cup Failed(ms, nid)
    ELSE Failed(ms, nid)

\* One request and its answer, as the client saw it.  `existed` is history:
\* whether the service held the memo the request names when it arrived.
Exchange(method, id, existed, status) ==
    [method |-> method, id |-> id, existed |-> existed, status |-> status]

\* response.raise_for_status() inside try/except RequestException
RequestFailedTransportOnly(status) == status \in {"ConnectionError", "Timeout"}
RequestFailed(status) == status # "ok"


\* ------------------------------------------------------------------ argv
NoArgs == [last |-> FALSE, search |-> None, clipboard |-> FALSE, delete |-> None,
           update |-> None, d |-> FALSE, u |-> FALSE]

ArgIds == {None, <<>>, <<"1">>}
ArgQueries == {None, <<>>, <<"a">>}

\* Every namespace parse_args() can return: a value option not given is None.
ArgSets ==
    [last : BOOLEAN, search : ArgQueries, clipboard : BOOLEAN, delete : ArgIds,
     update : ArgIds, d : BOOLEAN, u : BOOLEAN]

\* The if/elif chain of __main__: the branch taken.
Route(a, adv_feat) ==
    IF a.last THEN (IF adv_feat THEN "list_last" ELSE "disabled")
    ELSE IF Truthy(a.search) THEN (IF adv_feat THEN "search" ELSE "disabled")
    ELSE IF a.clipboard THEN (IF adv_feat THEN "clipboard_post" ELSE "disabled")
    ELSE IF Truthy(a.delete) THEN "delete"
    ELSE IF Truthy(a.update) THEN "update"
    ELSE "post"

\* ---------------------------------------------------------------- process
NoStdin == [isatty |-> FALSE, data |-> None]

Init ==
    /\ memos = <<>>
    /\ nextId = 1
    /\ pc = "start"
    /\ environ = NoEnv
    /\ cfg = NoCfg
    /\ args = NoArgs
    /\ handlers = <<>>
    /\ http = <<>>
    /\ stdout = <<>>
    /\ exit_code = 0
    /\ stdin = NoStdin
    /\ input_data = None
    /\ procs = <<>>
    /\ copy_status = "not_called"

\* The process ends: sys.exit(code), an uncaught exception (status 1), or
\* the end of the script (status 0).
Exit(code, lines, reqs) ==
    /\ pc' = "done"
    /\ exit_code' = code
    /\ stdout' = stdout \o lines
    /\ http' = http \o reqs

\* Where the script is once the branch taken returns: the chain is
\* if/elif/else and nothing follows it, so the script ends.
AfterBranchReentered == "dispatch"
AfterBranch == "done"

\* The handler returns normally.
Return(lines, reqs) ==
    /\ pc' = AfterBranch
    /\ exit_code' = 0
    /\ stdout' = stdout \o lines
    /\ http' = http \o reqs

\* __main__, first statement: get_config().
Main ==
    /\ pc = "start"
    /\ \E env \in Environs, file \in ConfFiles :
        LET merged == LoadDotenv(env, file)
            c == GetConfig(merged)
        IN  /\ environ' = merged
            /\ cfg' = c
            /\ IF c.missing
               THEN Exit(12, <<Line("error_config", <<"~/.memos.conf">>)>>, <<>>)
               ELSE /\ pc' = "main"
                    /\ UNCHANGED <<exit_code, stdout, http>>
    /\ UNCHANGED <<service, args, handlers, stdin, input_data, procs, copy_status>>

\* parser.parse_args()
ParseArgs ==
    /\ pc = "main"
    /\ \E a \in ArgSets : args' = a
    /\ pc' = "dispatch"
    /\ UNCHANGED <<service, environ, cfg, handlers, http, stdout, exit_code,
                   stdin, input_data, procs, copy_status>>

\* The three "else: sys.exit(12)" branches.
FeatureDisabled ==
    /\ pc = "dispatch"
    /\ Route(args, cfg.adv_feat) = "disabled"
    /\ Exit(12, <<>>, <<>>)
    /\ UNCHANGED <<service, environ, cfg, args, handlers, stdin, input_data,
                   procs, copy_status>>

\* list_last_memo(base_url, token)
ListLast ==
    /\ pc = "dispatch"
    /\ Route(args, cfg.adv_feat) = "list_last"
    /\ handlers' = Append(handlers, "list_last")
    /\ \E r \in ServiceList(memos, nextId, LastPageSize) :
        LET x == Exchange("GET", None, TRUE, r.status)
        IN  /\ memos' = r.memos
            /\ nextId' = r.nextId
            /\ IF RequestFailed(r.status)
               THEN /\ Exit(13, <<Line("error_list", <<r.status>>)>>, <<x>>)
                    /\ UNCHANGED <<procs, copy_status>>
               ELSE IF r.body = <<>>
               THEN /\ Return(<<Line("no_memos", <<>>)>>, <<x>>)
                    /\ UNCHANGED <<procs, copy_status>>
               ELSE LET last_memo == r.body[1]
                        memo_id == SplitLast(last_memo.name)
                        url == MemoUrl(cfg.base_url, memo_id)
                        out == <<Line("latest_header", memo_id),
                                 Line("content", last_memo.content),
                                 Line("rule", <<>>),
                                 Line("url", url)>>
                    IN  \E cp \in CopyOutcomes(url) :
                            /\ procs' = procs \o cp.procs
                            /\ copy_status' = cp.status
                            /\ IF cp.status = "raised"
                               THEN Exit(1, out, <<x>>)
                               ELSE Return(out, <<x>>)
    /\ UNCHANGED <<environ, cfg, args, stdin, input_data>>

\* The preview of one search result.
Preview(content) == Prefix(FirstLine(StripEnvelope(content)), PreviewLen)

\* search_memos(base_url, token, args.search)
Search ==
    /\ pc = "dispatch"
    /\ Route(args, cfg.adv_feat) = "search"
    /\ handlers' = Append(handlers, "search")
    /\ \E r \in ServiceSearch(memos, nextId, args.search, SearchPageSize) :
        LET x == Exchange("GET", None, TRUE, r.status)
        IN  /\ memos' = r.memos
            /\ nextId' = r.nextId
            /\ IF RequestFailed(r.status)
               THEN Exit(13, <<Line("error_search", <<r.status>>)>>, <<x>>)
               ELSE IF r.body = <<>>
               THEN Return(<<Line("no_match", args.search)>>, <<x>>)
               ELSE Return(
                         <<Line("search_header", args.search)>>
                         \o [i \in 1..Len(r.body) |->
                                Line("result", <<"[">> \o SplitLast(r.body[i].name) \o <<"] ">>
                                               \o Preview(r.body[i].content) \o <<"...">>)]
                         \o <<Line("search_rule", <<>>)>>,
                         <<x>>)
    /\ UNCHANGED <<environ, cfg, args, stdin, input_data, procs, copy_status>>

\* delete_memo(base_url, token, args.delete)
Delete ==
    /\ pc = "dispatch"
    /\ Route(args, cfg.adv_feat) = "delete"
    /\ handlers' = Append(handlers, "delete")
    /\ \E r \in ServiceDelete(memos, nextId, args.delete) :
        LET x == Exchange("DELETE", args.delete, args.delete \in Ids(memos), r.status)
        IN  /\ memos' = r.memos
            /\ nextId' = r.nextId
            /\ IF RequestFailed(r.status)
               THEN Exit(13, <<Line("error_delete", <<r.status>>)>>, <<x>>)
               ELSE Return(<<Line("success_delete", args.delete)>>, <<x>>)
    /\ UNCHANGED <<environ, cfg, args, stdin, input_data, procs, copy_status>>


\* What a handler can find on stdin: a terminal, or piped text.
StdinStates ==
    {[isatty |-> TRUE, data |-> None]}
    \cup {[isatty |-> FALSE, data |-> t] : t \in Texts(MaxLen)}

\* sys.stdin.isatty()
IsAttyNever(in) == FALSE
IsAtty(in) == in.isatty

\* if not input_data
NoInput(input) == ~Truthy(input)

\* update_memo(base_url, token, args.update, visibility)
Update ==
    /\ pc = "dispatch"
    /\ Route(args, cfg.adv_feat) = "update"
    /\ handlers' = Append(handlers, "update")
    /\ \E in \in StdinStates :
        /\ stdin' = in
        /\ IF IsAtty(in)
           THEN /\ Exit(11, <<Line("error_update_noinput", <<>>)>>, <<>>)
                /\ UNCHANGED <<service, input_data>>
           ELSE LET data == Strip(in.data)
                IN  /\ input_data' = data
                    /\ IF NoInput(data)
                       THEN /\ Exit(0, <<>>, <<>>)
                            /\ UNCHANGED service
                       ELSE \E r \in ServiceUpdate(memos, nextId, args.update,
                                                   Envelope(data), data) :
                            LET x == Exchange("PATCH", args.update,
                                              args.update \in Ids(memos), r.status)
                            IN  /\ memos' = r.memos
                                /\ nextId' = r.nextId
                                /\ IF RequestFailed(r.status)
                                   THEN Exit(13, <<Line("error_update", <<r.status>>)>>, <<x>>)
                                   ELSE Return(<<Line("success_update", args.update)>>, <<x>>)
    /\ UNCHANGED <<environ, cfg, args, procs, copy_status>>

\* How post_to_memos gets its input: what it learns about stdin, the
\* clipboard processes it starts, input_data, and whether it exits with 11.
PostInputs(from_clipboard) ==
    IF from_clipboard
    THEN {LET g == GetClipboardText(x, w, res)
          IN  [stdin |-> NoStdin, procs |-> g.procs, input_data |-> g.text,
               no_input |-> NoInput(g.text), error |-> "error_clipboard"] :
            x \in BOOLEAN, w \in BOOLEAN, res \in PasteResults}
    ELSE {[stdin |-> in, procs |-> <<>>,
           input_data |-> IF IsAtty(in) THEN None ELSE Strip(in.data),
           no_input |-> IsAtty(in), error |-> "error_nopipe"] : in \in StdinStates}

\* post_to_memos(show_delete, show_update, from_clipboard).  Its own
\* get_config() reads os.environ, which already holds what load_dotenv
\* merged at the start of __main__, so merging the file again adds nothing.
PostToMemos(show_delete, show_update, from_clipboard) ==
    /\ handlers' = Append(handlers, IF from_clipboard THEN "clipboard_post" ELSE "post")
    /\ LET c == GetConfig(environ)
       IN  IF c.missing
           THEN /\ Exit(12, <<Line("error_config", <<"~/.memos.conf">>)>>, <<>>)
                /\ UNCHANGED <<service, stdin, input_data, procs, copy_status>>
           ELSE \E in \in PostInputs(from_clipboard) :
                /\ stdin' = in.stdin
                /\ input_data' = in.input_data
                /\ IF in.no_input
                   THEN /\ Exit(11, <<Line(in.error, <<>>)>>, <<>>)
                        /\ procs' = procs \o in.procs
                        /\ UNCHANGED <<service, copy_status>>
                   ELSE IF NoInput(in.input_data)
                   THEN /\ Exit(0, <<>>, <<>>)
                        /\ procs' = procs \o in.procs
                        /\ UNCHANGED <<service, copy_status>>
                   ELSE \E r \in ServiceCreate(memos, nextId, Envelope(in.input_data),
                                               in.input_data) :
                        LET x == Exchange("POST", None, TRUE, r.status)
                        IN  /\ memos' = r.memos
                            /\ nextId' = r.nextId
                            /\ IF RequestFailed(r.status)
                               THEN /\ Exit(13, <<Line("error_post", <<r.status>>)>>, <<x>>)
                                    /\ procs' = procs \o in.procs
                                    /\ UNCHANGED copy_status
                               ELSE LET name == IF r.body = <<>> THEN <<>> ELSE r.body[1].name
                                        memo_id == SplitLast(name)
                                        url == MemoUrl(c.base_url, memo_id)
                                        ok == <<Line("success_post", url)>>
                                        hints ==
                                            (IF show_delete
                                             THEN <<Line("hint_delete", memo_id)>> ELSE <<>>)
                                            \o (IF show_update
                                                THEN <<Line("hint_update", memo_id)>> ELSE <<>>)
                                    IN  \E cp \in CopyOutcomes(url) :
                                        /\ procs' = procs \o in.procs \o cp.procs
                                        /\ copy_status' = cp.status
                                        /\ IF cp.status = "raised"
                                           THEN Exit(1, ok, <<x>>)
                                           ELSE Return(ok \o hints, <<x>>)
    /\ UNCHANGED <<environ, cfg, args>>

\* elif args.clipboard: ... post_to_memos(args.d, args.u, from_clipboard=True)
ClipboardPost ==
    /\ pc = "dispatch"
    /\ Route(args, cfg.adv_feat) = "clipboard_post"
    /\ PostToMemos(args.d, args.u, TRUE)

\* else: post_to_memos(args.d, args.u)
Post ==
    /\ pc = "dispatch"
    /\ Route(args, cfg.adv_feat) = "post"
    /\ PostToMemos(args.d, args.u, FALSE)

\* The user runs the tool again: a fresh process, the same service.
NewInvocation ==
    /\ pc = "done"
    /\ pc' = "start"
    /\ environ' = NoEnv
    /\ cfg' = NoCfg
    /\ args' = NoArgs
    /\ handlers' = <<>>
    /\ http' = <<>>
    /\ stdout' = <<>>
    /\ exit_code' = 0
    /\ stdin' = NoStdin
    /\ input_data' = None
    /\ procs' = <<>>
    /\ copy_status' = "not_called"
    /\ UNCHANGED service

Next ==
    \/ Main
    \/ ParseArgs
    \/ FeatureDisabled
    \/ ListLast
    \/ Search
    \/ ClipboardPost
    \/ Delete
    \/ Update
    \/ Post
    \/ NewInvocation

Spec == Init /\ [][Next]_vars


\* ================================================================ claims
Done == pc = "done"

Tags == {stdout[i].tag : i \in 1..Len(stdout)}

ErrorTags == {"error_config", "error_list", "error_search", "error_delete",
              "error_update_noinput", "error_update", "error_clipboard",
              "error_nopipe", "error_post"}

\* An optional value was given on the command line (argparse leaves None
\* otherwise), whatever its value.
Given(v) == v # None

\* C1: whenever MEMOS_URL or MEMOS_TOKEN resolves to empty (unset or "")
\* once the file is merged under the environment, the process has exited
\* with status 12, has issued no HTTP request and has started no handler.
C1_MissingConfigExits12 ==
    (pc # "start" /\ (environ["MEMOS_URL"] \in {None, <<>>}
                      \/ environ["MEMOS_TOKEN"] \in {None, <<>>}))
    => (pc = "done" /\ exit_code = 12 /\ http = <<>> /\ handlers = <<>>
        /\ procs = <<>>)

C1_Witness ==
    /\ Done
    /\ exit_code = 12
    /\ environ["MEMOS_URL"] = UrlText
    /\ environ["MEMOS_TOKEN"] = <<>>
    /\ http = <<>>

\* C2: with valid URL and token and the advanced-features toggle off, a run
\* given -L, -s QUERY (any QUERY, the empty string too) or -c ends with
\* status 12, no HTTP request, nothing on stdout and no handler started.
C2_GatedFlagExits12 ==
    (Done /\ ~cfg.missing /\ ~cfg.adv_feat
          /\ (args.last \/ Given(args.search) \/ args.clipboard))
    => (exit_code = 12 /\ http = <<>> /\ stdout = <<>> /\ handlers = <<>>)

\* C3: Post without -c, and Update, given piped stdin that is empty or all
\* whitespace, end with status 0 and no HTTP request.
C3_EmptyPipedInputIsNoOp ==
    (Done /\ handlers \in {<<"post">>, <<"update">>}
          /\ ~stdin.isatty /\ stdin.data # None
          /\ \A i \in 1..Len(stdin.data) : stdin.data[i] \in Whitespace)
    => (exit_code = 0 /\ http = <<>>)

C3_Witness ==
    /\ Done
    /\ handlers = <<"post">>
    /\ ~stdin.isatty
    /\ stdin.data = <<" ">>
    /\ exit_code = 0

\* C4: Post without -c, and Update, with stdin a terminal end with status 11
\* and no HTTP request; so does clipboard-Post when the paste gives None;
\* and no run that ends with status 11 has issued an HTTP request.
C4_NoInputExits11 ==
    Done =>
        /\ (handlers \in {<<"post">>, <<"update">>} /\ stdin.isatty)
            => (exit_code = 11 /\ http = <<>>)
        /\ (handlers = <<"clipboard_post">> /\ input_data = None)
            => (exit_code = 11 /\ http = <<>>)
        /\ (exit_code = 11 => http = <<>>)

C4_Witness ==
    /\ Done
    /\ handlers = <<"update">>
    /\ stdin.isatty
    /\ exit_code = 11

\* C5: when the HTTP call of a handler fails (transport error, timeout,
\* non-2xx), the run ends with status 13, prints its one error line and no
\* other, and has issued that one request only; a DELETE of an id the service
\* no longer holds ends with status 13 and no success line.
C5_ApiFailureExits13 ==
    Done =>
        /\ (http # <<>> /\ http[1].status # "ok")
            => (exit_code = 13 /\ Len(http) = 1 /\ Len(stdout) = 1
                /\ Tags \subseteq ErrorTags)
        /\ \A i \in 1..Len(http) :
            (http[i].method = "DELETE" /\ ~http[i].existed)
                => (exit_code = 13 /\ "success_delete" \notin Tags)

C5_Witness ==
    /\ Done
    /\ handlers = <<"delete">>
    /\ nextId > 1
    /\ http = <<Exchange("DELETE", <<"1">>, FALSE, "HTTPError")>>
    /\ exit_code = 13

\* C6: a copy step that fails once the utility is found (it cannot be
\* spawned, or the pipe to it breaks) leaves the outcome alone: status 0,
\* and Post still prints the hints asked for.
C6_CopyFailureIsSwallowed ==
    (Done /\ copy_status \in {"raised", "pipe_closed"})
    => /\ exit_code = 0
       /\ (handlers \in {<<"post">>, <<"clipboard_post">>} /\ args.d)
            => "hint_delete" \in Tags
       /\ (handlers \in {<<"post">>, <<"clipboard_post">>} /\ args.u)
            => "hint_update" \in Tags

Pastes == {i \in 1..Len(procs) : procs[i].mode = "paste"}
Copies == {i \in 1..Len(procs) : procs[i].mode = "copy"}

\* C7 as stated: at most one clipboard utility process per invocation.
C7_AtMostOneClipboardProcess == Len(procs) <= 1

\* C7 amended: at most one paste process and at most one copy process per
\* invocation; two processes are started only by a clipboard-Post whose
\* request succeeded (the paste, then the copy of the new URL).
C7_AtMostOnePasteAndOneCopy ==
    /\ Cardinality(Pastes) <= 1
    /\ Cardinality(Copies) <= 1
    /\ Len(procs) > 1
        => (handlers = <<"clipboard_post">> /\ Len(http) = 1 /\ http[1].status = "ok")

C7_Witness ==
    /\ Done
    /\ Len(procs) = 2
    /\ procs[1].mode = "paste"
    /\ procs[2].mode = "copy"
    /\ exit_code = 0

\* C8: no invocation issues more than one HTTP request or runs more than one
\* action handler.
C8_AtMostOneRequestAndHandler == Len(http) <= 1 /\ Len(handlers) <= 1

C8_Witness ==
    /\ Done
    /\ Len(http) = 1
    /\ Len(handlers) = 1
    /\ args.clipboard /\ Given(args.update) /\ Given(args.delete)

\* The first flag given, in the order -L, -s, -c, -D, -U; Post when none is.
FirstGiven(a) ==
    IF a.last THEN "list_last"
    ELSE IF Given(a.search) THEN "search"
    ELSE IF a.clipboard THEN "clipboard_post"
    ELSE IF Given(a.delete) THEN "delete"
    ELSE IF Given(a.update) THEN "update"
    ELSE "post"

\* C9: with the toggle on, the handler that runs is that of the first flag
\* given in the order List-Last > Search > Clipboard-Post > Delete > Update,
\* and Post runs only when none of them is given.
C9_FirstGivenFlagWins ==
    (Done /\ ~cfg.missing /\ cfg.adv_feat) => handlers = <<FirstGiven(args)>>

\* The memo List-Last printed is the newest the service holds.
ListLastPrinted == Done /\ handlers = <<"list_last">> /\ "content" \in Tags

\* C10 as stated: for a memo posted with trimmed content c, List-Last prints
\* c itself.
C10_ListLastPrintsBareContent ==
    ListLastPrinted => stdout[2].text = memos[Len(memos)].posted

\* C10 amended: List-Last prints the stored content as it is, the opening
\* fence line, then c, then the closing fence; removing the two fence
\* markers from what is printed gives c.
C10_ListLastPrintsEnvelope ==
    ListLastPrinted =>
        LET c == memos[Len(memos)].posted
        IN  /\ stdout[2].text = <<FenceOpen>> \o c \o <<FenceClose>>
            /\ Remove(Remove(stdout[2].text, FenceOpen), FenceClose) = c

C10_Witness ==
    /\ ListLastPrinted
    /\ memos[Len(memos)].posted = <<"a", "a">>
    /\ stdout[2].tag = "content"
    /\ exit_code = 0

====
